---- MODULE Spec2Model ----
(***************************************************************************)
(* A model of the insurance decision service (query analyzer + reasoning   *)
(* engine, src/ai-model) and of the PDF QA service: its text chunker       *)
(* (src/utils.py), its prompt builder (src/llm.py) and its batch endpoint  *)
(* (src/main.py) with the vector index behind it (src/vector.py).          *)
(*                                                                         *)
(* Python values are modelled as follows.                                  *)
(*   - str        : a TLA+ string; Len, SubSeq and \o act on it as on a    *)
(*                  sequence of characters.                                *)
(*   - Optional[T]: <<>> is None, <<v>> is the value v.                    *)
(*   - float       : the confidences and similarities (0.95, 0.1, ...) are  *)
(*                  kept in hundredths (95, 10, ...).  The products        *)
(*                  amount * 1.1 etc. are IEEE-754 doubles and are         *)
(*                  modelled exactly, see IntTimes115.                     *)
(*   - an exception: a record [raised |-> TRUE, error |-> message].        *)
(***************************************************************************)
EXTENDS Integers, Sequences, FiniteSets, TLC

VARIABLES
    pc,               \* position of the /process handler
    query,            \* the query text of the request being processed
    entities,         \* the record returned by extract_entities
    relevant_clauses, \* the clauses returned by the retrieval step
    result,           \* the record returned by make_decision
    rules,            \* the engine's attribute policy_rules
    cpc,              \* position of split_text_optimized
    cfg,              \* the TextChunker's configuration [chunk_size, overlap]
    input,            \* the text handed to split_text_optimized
    text,             \* the preprocessed text
    start,            \* the scan position
    chunks,           \* the list of chunks produced so far
    spans,            \* history: for each chunk, the offsets [lo, hi) it has in text
    scanned,          \* history: the segments scanned, [s, e) as cut, [lo, hi) once stripped
    ppc,              \* position of a call of _create_optimized_prompt
    question,         \* its argument question
    context_chunks,   \* its argument context_chunks
    prompt,           \* the prompt it returned
    qpc,              \* position of the /hackrx/run handler
    bearer,           \* the environment's BEARER_TOKEN
    components,       \* the module globals vector_store, llm_client, pdf_processor, text_chunker
    request,          \* the request being served: [token, pdf_url, questions]
    status,           \* the status of the response to it (0: none yet)
    pdf,              \* what extract_text_from_url returned: [text, title]
    index,            \* the vectors of the Pinecone index
    qi,               \* the loop's position in request.questions
    answers,          \* the list answers
    explain,          \* the dict explainability_data
    metadata,         \* the metadata of the response
    fetches,          \* history: the number of documents fetched
    llm_calls,        \* history: the number of calls of generate_answer_optimized
    trace,            \* history: per question served, what retrieval and generation returned
    served            \* history: the number of requests received

dvars == <<pc, query, entities, relevant_clauses, result, rules>>
cvars == <<cpc, cfg, input, text, start, chunks, spans, scanned>>
pvars == <<ppc, question, context_chunks, prompt>>
qvars == <<qpc, bearer, components, request, status, pdf, index, qi, answers, explain,
           metadata, fetches, llm_calls, trace, served>>
vars == <<pc, query, entities, relevant_clauses, result, rules,
          cpc, cfg, input, text, start, chunks, spans, scanned,
          ppc, question, context_chunks, prompt,
          qpc, bearer, components, request, status, pdf, index, qi, answers, explain,
          metadata, fetches, llm_calls, trace, served>>

(***************************************************************************)
(* Python built-ins                                                         *)
(***************************************************************************)
None == <<>>
Some(v) == <<v>>
Val(o) == o[1]

\* main.py lines 44-47: the four globals before get_components has run
NoComponents ==
    [vector_store |-> FALSE, llm_client |-> FALSE, pdf_processor |-> FALSE, text_chunker |-> FALSE]

Min(S) == CHOOSE x \in S : \A y \in S : x <= y
Max(S) == CHOOSE x \in S : \A y \in S : x >= y

CharAt(s, i) == SubSeq(s, i, i)

UpperChars == "ABCDEFGHIJKLMNOPQRSTUVWXYZ"
LowerChars == "abcdefghijklmnopqrstuvwxyz"
DigitChars == "0123456789"
\* what the regular expression class \s matches (the model's texts hold
\* the space, the tab and the newline)
WhitespaceChars == " \t\n\r\f"

InChars(c, set) == \E i \in 1..Len(set) : CharAt(set, i) = c
IndexIn(c, set) == CHOOSE i \in 1..Len(set) : CharAt(set, i) = c

IsDigit(c) == InChars(c, DigitChars)
IsSpace(c) == InChars(c, WhitespaceChars)

LowerChar(c) == IF InChars(c, UpperChars) THEN CharAt(LowerChars, IndexIn(c, UpperChars)) ELSE c
UpperChar(c) == IF InChars(c, LowerChars) THEN CharAt(UpperChars, IndexIn(c, LowerChars)) ELSE c

RECURSIVE Lower(_)
\* str.lower()
Lower(s) == IF s = "" THEN "" ELSE LowerChar(CharAt(s, 1)) \o Lower(SubSeq(s, 2, Len(s)))

\* str.title() of a single lower-case word
Title(s) == IF s = "" THEN "" ELSE UpperChar(CharAt(s, 1)) \o Lower(SubSeq(s, 2, Len(s)))

\* s[:n]
Prefix(s, n) == SubSeq(s, 1, IF n < Len(s) THEN n ELSE Len(s))

\* s.startswith(prefix)
StartsWith(s, prefix) == Len(s) >= Len(prefix) /\ SubSeq(s, 1, Len(prefix)) = prefix

\* sub in s
Contains(sub, s) == \E i \in 0..(Len(s) - Len(sub)) : SubSeq(s, i + 1, i + Len(sub)) = sub

RECURSIVE ParseInt(_)
\* int(s) of a string of decimal digits
ParseInt(s) ==
    IF Len(s) = 0 THEN 0
    ELSE 10 * ParseInt(SubSeq(s, 1, Len(s) - 1)) + (IndexIn(CharAt(s, Len(s)), DigitChars) - 1)

\* str(x) of an Optional[int]
StrOfInt(o) == IF o = None THEN "None" ELSE ToString(Val(o))
\* str(x) of an Optional[str]
StrOfStr(o) == IF o = None THEN "None" ELSE Val(o)

\* the offsets of s.strip(): s[lo:hi] with lo, hi counted from 0
StripLo(s) == IF \A i \in 1..Len(s) : IsSpace(CharAt(s, i)) THEN Len(s)
              ELSE (CHOOSE i \in 1..Len(s) :
                        ~IsSpace(CharAt(s, i)) /\ \A j \in 1..(i - 1) : IsSpace(CharAt(s, j))) - 1
StripHi(s) == IF \A i \in 1..Len(s) : IsSpace(CharAt(s, i)) THEN Len(s)
              ELSE Len(s) - (CHOOSE k \in 0..(Len(s) - 1) :
                                 ~IsSpace(CharAt(s, Len(s) - k))
                                 /\ \A j \in 0..(k - 1) : IsSpace(CharAt(s, Len(s) - j)))
Strip(s) == SubSeq(s, StripLo(s) + 1, StripHi(s))

(***************************************************************************)
(* ReasoningEngine (src/ai-model/src/reasoning_engine.py)                   *)
(***************************************************************************)
\* the policy rule table built by load_policy_rules; make_decision neither
\* reads it nor assigns it
policy_rules ==
    [bajaj_allianz |->
        [waiting_periods |-> [knee_surgery |-> 90, heart_surgery |-> 180, cancer |-> 365, eye_surgery |-> 30],
         coverage_limits |-> [knee_surgery |-> 150000, heart_surgery |-> 500000, cancer |-> 1000000, eye_surgery |-> 50000],
         age_limits |-> [min |-> 18, max |-> 65]],
     hdfc_ergo |->
        [waiting_periods |-> [knee_surgery |-> 90, heart_surgery |-> 0, cancer |-> 0, eye_surgery |-> 30],
         coverage_limits |-> [knee_surgery |-> 120000, heart_surgery |-> 500000, cancer |-> 1000000, eye_surgery |-> 60000],
         age_limits |-> [min |-> 18, max |-> 70]]]

\* an exception raised inside make_decision's try block
Raise(msg) == [raised |-> TRUE, error |-> msg]

NoneTypeGtInt == "'>' not supported between instances of 'NoneType' and 'int'"

\* _format_result
FormatResult(decision, amount, justification, confidence, source_clauses, reasoning_steps) ==
    [raised |-> FALSE,
     decision |-> decision,
     amount |-> amount,
     justification |-> justification,
     confidence |-> confidence,
     source_clauses |-> source_clauses,
     reasoning_steps |-> reasoning_steps]

\* Python's truth value of entities.get("age"): None and 0 are false
AgeTruthy(age) == age # None /\ Val(age) # 0

\* `if policy_duration:` -- a dict with the keys value and unit is true
DurationTruthy(policy_duration) == policy_duration # None

\* procedure = entities.get("procedure", "").lower() if entities.get("procedure") else ""
ProcedureOf(e) ==
    IF e.procedure # None /\ Val(e.procedure) # "" THEN Lower(Val(e.procedure)) ELSE ""

\* lines 79-86: the policy duration in days
DurationDays(policy_duration) ==
    IF DurationTruthy(policy_duration)
    THEN LET value == Val(policy_duration).value
             unit == Val(policy_duration).unit
         IN IF unit = "month" THEN value * 30
            ELSE IF unit = "year" THEN value * 365
            ELSE 0
    ELSE 0

\* line 90: age and (age < 18 or age > 70)
AgeGate(age) == AgeTruthy(age) /\ (Val(age) < 18 \/ Val(age) > 70)

metro_cities == <<"mumbai", "delhi", "bangalore", "chennai", "kolkata", "hyderabad">>

\* line 199: location and location.lower() in metro_cities
IsMetro(location) ==
    /\ location # None
    /\ Val(location) # ""
    /\ \E i \in 1..Len(metro_cities) : metro_cities[i] = Lower(Val(location))

RECURSIVE Binade(_, _)
\* the e >= k with 2^e < n <= 2^(e+1), for n > 2^k
Binade(n, k) == IF n <= 2 ^ (k + 1) THEN k ELSE Binade(n, k + 1)

\* int(amount * 1.1).  The double nearest 1.1 is 1.1 + (2/5) * 2^-52, so
\* the exact product lies just above 11 * amount / 10, the rounded product
\* is never below an integer the real product reaches, and truncation gives
\* the floor of the real product.
IntTimes110(amount) == (11 * amount) \div 10

\* int(amount * 0.9).  The double nearest 0.9 is 0.9 + (1/10) * 2^-52:
\* as for 1.1.
IntTimes090(amount) == (9 * amount) \div 10

\* int(amount * 1.15).  The double nearest 1.15 is 1.15 - (2/5) * 2^-52, so
\* the exact product is n - (2 * amount / 5) * 2^-52 with n = 23 * amount / 20.
\* When n is an integer, 2^e < n <= 2^(e+1), the doubles just below n are
\* 2^(e-52) apart and the product rounds (to nearest, ties to even) to n
\* only if (2 * amount / 5) * 2^-52 <= 2^(e-53), that is 4 * amount <= 5 * 2^e;
\* otherwise it rounds to the double below n and truncation gives n - 1.
IntTimes115(amount) ==
    IF (23 * amount) % 20 # 0 THEN (23 * amount) \div 20
    ELSE LET n == (23 * amount) \div 20
             e == Binade(n, 0)
         IN IF 4 * amount <= 5 * (2 ^ e) THEN n ELSE n - 1

BAJ003(similarity) ==
    [clause_id |-> "BAJ-003",
     text |-> "Day care procedures covered where treatment is less than 24 hours",
     policy_name |-> "Bajaj Allianz Global Health Care",
     similarity |-> similarity]

HDFC001(similarity) ==
    [clause_id |-> "HDFC-001",
     text |-> "Critical illness coverage includes cancer, CABG, heart attack, stroke, kidney failure",
     policy_name |-> "HDFC Ergo Easy Health",
     similarity |-> similarity]

\* lines 105-131
KneeBranch(age, policy_duration, duration_days, steps) ==
    LET steps1 == Append(steps, "Processing knee surgery claim")
        required_waiting == 90
    IN IF duration_days >= required_waiting
       THEN IF age = None
            THEN Raise(NoneTypeGtInt)     \* base_amount = 150000 if age > 45 else 120000
            ELSE FormatResult(
                    "Approved",
                    Some(IF Val(age) > 45 THEN 150000 ELSE 120000),
                    "Knee surgery is covered under day care procedures. Policy duration of "
                        \o ToString(Val(policy_duration).value) \o " " \o Val(policy_duration).unit
                        \o " meets the " \o ToString(required_waiting) \o "-day waiting period requirement.",
                    85,
                    <<BAJ003(85)>>,
                    Append(steps1, "Approved: Waiting period satisfied (" \o ToString(duration_days)
                                   \o " >= " \o ToString(required_waiting) \o " days)"))
       ELSE FormatResult(
                "Rejected",
                None,
                "Policy duration of " \o ToString(duration_days) \o " days is less than the required "
                    \o ToString(required_waiting) \o "-day waiting period for knee surgery.",
                90,
                <<>>,
                Append(steps1, "Rejected: Waiting period not satisfied (" \o ToString(duration_days)
                               \o " < " \o ToString(required_waiting) \o " days)"))

\* HeartBranch that approves without an amount
HeartBranchNoAmount(steps) ==
    FormatResult(
        "Approved",
        None,
        "Heart surgery is covered under critical illness benefits with no waiting period.",
        90,
        <<HDFC001(90)>>,
        steps \o <<"Processing heart surgery claim", "Approved: Critical illness coverage applies">>)

\* lines 133-149
HeartBranch(steps) ==
    FormatResult(
        "Approved",
        Some(500000),
        "Heart surgery is covered under critical illness benefits with no waiting period.",
        90,
        <<HDFC001(90)>>,
        steps \o <<"Processing heart surgery claim", "Approved: Critical illness coverage applies">>)

\* lines 151-167
CancerBranch(steps) ==
    FormatResult(
        "Approved",
        Some(1000000),
        "Cancer treatment is fully covered under critical illness benefits with no waiting period.",
        95,
        <<HDFC001(95)>>,
        steps \o <<"Processing cancer treatment claim", "Approved: Cancer covered under critical illness">>)

\* EyeBranch with the waiting period compared strictly
EyeBranchStrict(duration_days, steps) ==
    LET steps1 == Append(steps, "Processing eye surgery claim")
        required_waiting == 30
    IN IF duration_days > required_waiting
       THEN FormatResult("Approved", Some(60000),
                "Eye surgery is covered under day care procedures. Policy duration meets the "
                    \o ToString(required_waiting) \o "-day waiting period.",
                80, <<BAJ003(80)>>, Append(steps1, "Approved: Eye surgery waiting period satisfied"))
       ELSE FormatResult("Rejected", None,
                "Policy duration of " \o ToString(duration_days) \o " days is less than the required "
                    \o ToString(required_waiting) \o "-day waiting period for eye surgery.",
                85, <<>>, Append(steps1, "Rejected: Eye surgery waiting period not satisfied"))

\* lines 169-193
EyeBranch(duration_days, steps) ==
    LET steps1 == Append(steps, "Processing eye surgery claim")
        required_waiting == 30
    IN IF duration_days >= required_waiting
       THEN FormatResult(
                "Approved",
                Some(60000),
                "Eye surgery is covered under day care procedures. Policy duration meets the "
                    \o ToString(required_waiting) \o "-day waiting period.",
                80,
                <<BAJ003(80)>>,
                Append(steps1, "Approved: Eye surgery waiting period satisfied"))
       ELSE FormatResult(
                "Rejected",
                None,
                "Policy duration of " \o ToString(duration_days) \o " days is less than the required "
                    \o ToString(required_waiting) \o "-day waiting period for eye surgery.",
                85,
                <<>>,
                Append(steps1, "Rejected: Eye surgery waiting period not satisfied"))

\* DefaultBranch that covers the procedure as a day care procedure
DefaultBranchCovers(steps) ==
    FormatResult("Approved", Some(50000), "No matching coverage found", 50, <<>>, steps)

\* lines 63-68 and the fall-through of the if/elif chain
DefaultBranch(steps) ==
    FormatResult("Rejected", None, "No matching coverage found", 50, <<>>, steps)

\* ProcedureBranch with the 180-day waiting period of the rule table applied
\* to heart surgery
ProcedureBranchHeartWaits(procedure, age, policy_duration, duration_days, steps) ==
    IF Contains("knee", procedure)
    THEN KneeBranch(age, policy_duration, duration_days, steps)
    ELSE IF Contains("heart", procedure) \/ Contains("cardiac", procedure) \/ Contains("cabg", procedure)
    THEN (IF duration_days >= 180 THEN HeartBranch(steps) ELSE DefaultBranch(steps))
    ELSE IF Contains("cancer", procedure)
    THEN CancerBranch(steps)
    ELSE IF Contains("eye", procedure) \/ Contains("cataract", procedure)
    THEN EyeBranch(duration_days, steps)
    ELSE DefaultBranch(steps)

\* lines 105-193: the if/elif chain on the procedure
ProcedureBranch(procedure, age, policy_duration, duration_days, steps) ==
    IF Contains("knee", procedure)
    THEN KneeBranch(age, policy_duration, duration_days, steps)
    ELSE IF Contains("heart", procedure) \/ Contains("cardiac", procedure) \/ Contains("cabg", procedure)
    THEN HeartBranch(steps)
    ELSE IF Contains("cancer", procedure)
    THEN CancerBranch(steps)
    ELSE IF Contains("eye", procedure) \/ Contains("cataract", procedure)
    THEN EyeBranch(duration_days, steps)
    ELSE DefaultBranch(steps)

\* lines 199-201
MetroAdjustment(r, location) ==
    IF IsMetro(location)
    THEN [r EXCEPT !.amount = Some(IntTimes110(Val(r.amount))),
                   !.reasoning_steps = Append(@, "Metro city adjustment applied: +10%")]
    ELSE r

\* lines 204-209
AgeAdjustment(r, age) ==
    IF AgeTruthy(age) /\ Val(age) > 60
    THEN [r EXCEPT !.amount = Some(IntTimes115(Val(r.amount))),
                   !.reasoning_steps = Append(@, "Senior citizen adjustment applied: +15%")]
    ELSE IF AgeTruthy(age) /\ Val(age) < 25
    THEN [r EXCEPT !.amount = Some(IntTimes090(Val(r.amount))),
                   !.reasoning_steps = Append(@, "Young adult discount applied: -10%")]
    ELSE r

\* BusinessRules with the age adjustment applied before the metro adjustment
BusinessRulesAgeFirst(r, age, location) ==
    LET adjusted == IF r.decision = "Approved" /\ r.amount # None /\ Val(r.amount) # 0
                    THEN MetroAdjustment(AgeAdjustment(r, age), location)
                    ELSE r
    IN [adjusted EXCEPT !.reasoning_steps =
            Append(@, "Final decision: " \o adjusted.decision \o ", Amount: " \o StrOfInt(adjusted.amount))]

\* lines 195-213
BusinessRules(r, age, location) ==
    LET adjusted == IF r.decision = "Approved" /\ r.amount # None /\ Val(r.amount) # 0
                    THEN AgeAdjustment(MetroAdjustment(r, location), age)
                    ELSE r
    IN [adjusted EXCEPT !.reasoning_steps =
            Append(@, "Final decision: " \o adjusted.decision \o ", Amount: " \o StrOfInt(adjusted.amount))]

\* the try block of make_decision, lines 63-213
DecisionBody(e) ==
    LET procedure == ProcedureOf(e)
        policy_duration == e.policy_duration
        age == e.age
        gender == e.gender
        location == e.location
        steps0 == <<"Analyzing query for: Age=" \o StrOfInt(age) \o ", Gender=" \o StrOfStr(gender)
                    \o ", Procedure=" \o procedure>>
        duration_days == DurationDays(policy_duration)
        steps1 == IF DurationTruthy(policy_duration)
                  THEN Append(steps0, "Policy duration: " \o ToString(duration_days) \o " days")
                  ELSE steps0
    IN IF AgeGate(age)
       THEN FormatResult("Rejected", None,
                         "Age " \o StrOfInt(age) \o " is outside the eligible range (18-70 years)",
                         95, <<>>, Append(steps1, "Age validation failed"))
       ELSE IF procedure = ""
       THEN FormatResult("Rejected", None, "No medical procedure identified in the query",
                         80, <<>>, Append(steps1, "No procedure identified"))
       ELSE LET br == ProcedureBranch(procedure, age, policy_duration, duration_days, steps1)
            IN IF br.raised THEN br ELSE BusinessRules(br, age, location)

\* ErrorResult that keeps the defaults of lines 63-66
ErrorResultDefaults(msg) ==
    FormatResult("Rejected", None, "No matching coverage found", 50, <<>>, <<"Error: " \o msg>>)

\* the except clause of make_decision, lines 215-217
ErrorResult(msg) ==
    FormatResult("Rejected", None, "Error processing claim", 10, <<>>, <<"Error: " \o msg>>)

\* MakeDecision that cites the clauses it is given
MakeDecisionCitingClauses(e, clauses) ==
    LET body == DecisionBody(e)
    IN IF body.raised THEN ErrorResult(body.error)
       ELSE [body EXCEPT !.source_clauses = @ \o clauses]

\* make_decision
MakeDecision(e, clauses) ==
    LET body == DecisionBody(e)
    IN IF body.raised THEN ErrorResult(body.error) ELSE body


(***************************************************************************)
(* QueryAnalyzer (src/ai-model/src/query_analyzer.py)                       *)
(***************************************************************************)
\* the dict medical_patterns, in insertion order
medical_patterns ==
    << <<"knee surgery", "knee operation", "knee replacement">>,
       <<"heart surgery", "cardiac surgery", "cabg", "bypass">>,
       <<"cancer", "tumor", "oncology", "chemotherapy">>,
       <<"eye surgery", "cataract", "lasik">>,
       <<"day care", "daycare", "outpatient">> >>

indian_cities ==
    <<"mumbai", "delhi", "bangalore", "pune", "chennai", "kolkata",
      "hyderabad", "ahmedabad", "surat", "jaipur", "lucknow", "kanpur">>

\* --- regular expression pieces; positions are 1-based, a match that needs
\* a character past the end fails
RECURSIVE DigitRunEnd(_, _)
\* \d+ from position i (a digit): the position of the last digit it takes
DigitRunEnd(s, i) ==
    IF i + 1 <= Len(s) /\ IsDigit(CharAt(s, i + 1)) THEN DigitRunEnd(s, i + 1) ELSE i

RECURSIVE SkipSpace(_, _)
\* \s* from position i: the position after the white space it takes
SkipSpace(s, i) ==
    IF i <= Len(s) /\ IsSpace(CharAt(s, i)) THEN SkipSpace(s, i + 1) ELSE i

\* the literal lit (lower case) at position i, ignoring case
LiteralAt(s, i, lit) ==
    /\ i >= 1
    /\ i + Len(lit) - 1 <= Len(s)
    /\ Lower(SubSeq(s, i, i + Len(lit) - 1)) = lit

RECURSIVE NumberEnd(_, _)
\* \d+(?:,\d+)* from position i (a digit): the position of its last digit
NumberEnd(s, i) ==
    LET j == DigitRunEnd(s, i)
    IN IF j + 2 <= Len(s) /\ CharAt(s, j + 1) = "," /\ IsDigit(CharAt(s, j + 2))
       THEN NumberEnd(s, j + 2)
       ELSE j

\* re.search: the match at the leftmost position that has one; tries[i] is
\* the outcome of trying the pattern at position i
SearchFirst(tries) ==
    LET hits == {i \in DOMAIN tries : tries[i] # None}
    IN IF hits = {} THEN None ELSE tries[Min(hits)]

\* r'(\d+)([MF])' with re.IGNORECASE, tried at position i
AgeGenderAt(s, i) ==
    IF ~IsDigit(CharAt(s, i)) THEN None
    ELSE LET j == DigitRunEnd(s, i)
         IN IF j + 1 <= Len(s) /\ LowerChar(CharAt(s, j + 1)) \in {"m", "f"}
            THEN Some([g1 |-> SubSeq(s, i, j), g2 |-> CharAt(s, j + 1)])
            ELSE None

\* the common prefix (\d+)[\s]*[-]?[\s]* of the duration patterns, tried at
\* position i: the position after it
DurationPrefixEnd(s, i) ==
    LET j == DigitRunEnd(s, i)
        k1 == SkipSpace(s, j + 1)
        k2 == IF k1 <= Len(s) /\ CharAt(s, k1) = "-" THEN k1 + 1 ELSE k1
    IN SkipSpace(s, k2)

\* DurationLongAt without the optional hyphen: (\d+)\s*(month|year)s?
DurationLongNoHyphenAt(s, i) ==
    IF ~IsDigit(CharAt(s, i)) THEN None
    ELSE LET k == SkipSpace(s, DigitRunEnd(s, i) + 1)
         IN IF LiteralAt(s, k, "month")
            THEN Some([g1 |-> SubSeq(s, i, DigitRunEnd(s, i)), g2 |-> SubSeq(s, k, k + 4)])
            ELSE IF LiteralAt(s, k, "year")
            THEN Some([g1 |-> SubSeq(s, i, DigitRunEnd(s, i)), g2 |-> SubSeq(s, k, k + 3)])
            ELSE None

\* r'(\d+)[\s]*[-]?[\s]*(month|year)s?' with re.IGNORECASE, tried at position i
DurationLongAt(s, i) ==
    IF ~IsDigit(CharAt(s, i)) THEN None
    ELSE LET k == DurationPrefixEnd(s, i)
         IN IF LiteralAt(s, k, "month")
            THEN Some([g1 |-> SubSeq(s, i, DigitRunEnd(s, i)), g2 |-> SubSeq(s, k, k + 4)])
            ELSE IF LiteralAt(s, k, "year")
            THEN Some([g1 |-> SubSeq(s, i, DigitRunEnd(s, i)), g2 |-> SubSeq(s, k, k + 3)])
            ELSE None

\* r'(\d+)[\s]*[-]?[\s]*(m|y)(?:\s|$)' with re.IGNORECASE, tried at position i
DurationShortAt(s, i) ==
    IF ~IsDigit(CharAt(s, i)) THEN None
    ELSE LET k == DurationPrefixEnd(s, i)
         IN IF /\ k <= Len(s)
               /\ LowerChar(CharAt(s, k)) \in {"m", "y"}
               /\ (k = Len(s) \/ IsSpace(CharAt(s, k + 1)))
            THEN Some([g1 |-> SubSeq(s, i, DigitRunEnd(s, i)), g2 |-> CharAt(s, k)])
            ELSE None

\* lines 60-76: the first duration pattern that matches gives the duration
ExtractDuration(q) ==
    LET long == SearchFirst([i \in 1..Len(q) |-> DurationLongAt(q, i)])
        short == SearchFirst([i \in 1..Len(q) |-> DurationShortAt(q, i)])
        m == IF long # None THEN long ELSE short
    IN IF m = None THEN None
       ELSE LET value == ParseInt(Val(m).g1)
                unit == Lower(Val(m).g2)
            IN Some([value |-> value,
                     unit |-> IF unit \in {"m", "month"} THEN "month"
                              ELSE IF unit \in {"y", "year"} THEN "year"
                              ELSE unit])

\* lines 80-86: the first surface form, in the order of medical_patterns,
\* that occurs in the lower-cased query
ExtractProcedure(query_lower) ==
    LET found == {<<c, p>> \in (1..Len(medical_patterns)) \X (1..4) :
                    p <= Len(medical_patterns[c]) /\ Contains(medical_patterns[c][p], query_lower)}
    IN IF found = {} THEN None
       ELSE LET c == Min({f[1] : f \in found})
                p == Min({f[2] : f \in {g \in found : g[1] = c}})
            IN Some(medical_patterns[c][p])

\* lines 89-92
ExtractLocation(query_lower) ==
    LET found == {i \in 1..Len(indian_cities) : Contains(indian_cities[i], query_lower)}
    IN IF found = {} THEN None ELSE Some(Title(indian_cities[Min(found)]))

\* r'rs\.?\s*(\d+(?:,\d+)*)' with re.IGNORECASE, tried at position i
AmountRsAt(s, i) ==
    IF ~LiteralAt(s, i, "rs") THEN None
    ELSE LET k1 == IF i + 2 <= Len(s) /\ CharAt(s, i + 2) = "." THEN i + 3 ELSE i + 2
             k == SkipSpace(s, k1)
         IN IF k <= Len(s) /\ IsDigit(CharAt(s, k))
            THEN Some([g1 |-> SubSeq(s, k, NumberEnd(s, k))])
            ELSE None

\* r'rupees?\s*(\d+(?:,\d+)*)' with re.IGNORECASE, tried at position i
AmountRupeesBeforeAt(s, i) ==
    IF ~LiteralAt(s, i, "rupee") THEN None
    ELSE LET k1 == IF LiteralAt(s, i + 5, "s") THEN i + 6 ELSE i + 5
             k == SkipSpace(s, k1)
         IN IF k <= Len(s) /\ IsDigit(CharAt(s, k))
            THEN Some([g1 |-> SubSeq(s, k, NumberEnd(s, k))])
            ELSE None

\* r'(\d+(?:,\d+)*)\s*rupees?' with re.IGNORECASE, tried at position i
AmountRupeesAfterAt(s, i) ==
    IF ~IsDigit(CharAt(s, i)) THEN None
    ELSE LET j == NumberEnd(s, i)
         IN IF LiteralAt(s, SkipSpace(s, j + 1), "rupee")
            THEN Some([g1 |-> SubSeq(s, i, j)])
            ELSE None

RECURSIVE RemoveCommas(_)
\* amount_str.replace(',', '')
RemoveCommas(s) ==
    IF s = "" THEN ""
    ELSE (IF CharAt(s, 1) = "," THEN "" ELSE CharAt(s, 1)) \o RemoveCommas(SubSeq(s, 2, Len(s)))

\* lines 95-107.  The first pattern of the list starts with a literal that
\* is not ASCII; the queries of the model are ASCII, so it never matches.
ExtractAmount(q) ==
    LET m2 == SearchFirst([i \in 1..Len(q) |-> AmountRsAt(q, i)])
        m3 == SearchFirst([i \in 1..Len(q) |-> AmountRupeesBeforeAt(q, i)])
        m4 == SearchFirst([i \in 1..Len(q) |-> AmountRupeesAfterAt(q, i)])
        m == IF m2 # None THEN m2 ELSE IF m3 # None THEN m3 ELSE m4
    IN IF m = None THEN None ELSE Some(ParseInt(RemoveCommas(Val(m).g1)))

\* extract_entities, lines 36-110
ExtractEntities(q) ==
    LET age_gender_match == SearchFirst([i \in 1..Len(q) |-> AgeGenderAt(q, i)])
        query_lower == Lower(q)
    IN [age |-> IF age_gender_match = None THEN None ELSE Some(ParseInt(Val(age_gender_match).g1)),
        gender |-> IF age_gender_match = None THEN None
                   ELSE IF UpperChar(Val(age_gender_match).g2) = "M" THEN Some("Male") ELSE Some("Female"),
        procedure |-> ExtractProcedure(query_lower),
        location |-> ExtractLocation(query_lower),
        policy_duration |-> ExtractDuration(q),
        amount |-> ExtractAmount(q)]


(***************************************************************************)
(* The /process handler (src/ai-model/main.py) and its inputs               *)
(***************************************************************************)
MaxDurationValue == 4

\* the query texts a client sends
Queries ==
    {"46M, knee surgery, Pune, 3-month policy",
     "25M, eye surgery, Delhi, 1-month policy",
     "35F, heart surgery, Mumbai, 6-month policy",
     "60F, cancer treatment, Bangalore, 12-month policy",
     "40M, day care procedure, Chennai, 4-month policy",
     "knee surgery, 3-month policy",
     "0M, heart surgery",
     "65m knee replacement in MUMBAI, 1 year",
     "46M knee surgery",
     "cataract 6months Rs. 5,000",
     "  17F CABG  ",
     "lasik 2 Y 40,000 rupees",
     "hello",
     "   ",
     ""}

\* the ages on both sides of every threshold make_decision compares with
Ages == {None} \cup {Some(a) : a \in {0 - 1, 0, 17, 18, 24, 25, 45, 46, 60, 61, 65, 70, 71}}
Genders == {None, Some("Female")}
Procedures ==
    {None, Some(""), Some("knee surgery"), Some("Heart Surgery"), Some("cardiac surgery"),
     Some("cabg"), Some("cancer"), Some("eye surgery"), Some("cataract"), Some("day care"),
     Some("knee and heart surgery")}
Locations == {None, Some("Mumbai"), Some("Pune")}
Durations ==
    {None} \cup {Some([value |-> v, unit |-> "month"]) : v \in 0..MaxDurationValue}
           \cup {Some([value |-> v, unit |-> "year"]) : v \in 0..1}
Amounts == {None, Some(50000)}

\* the records make_decision is applied to directly
EntityInputs ==
    [age : Ages, gender : Genders, procedure : Procedures, location : Locations,
     policy_duration : Durations, amount : Amounts]

\* what search_similar_clauses may return
ClauseLists ==
    {<<>>,
     <<[clause_id |-> "BAJ-001", text |-> "Waiting period of 90 days applies", category |-> "eligibility",
        policy_name |-> "Bajaj Allianz Global Health Care", similarity |-> 72]>>}

\* the decision service is idle, or make_decision is about to be applied to
\* a record of EntityInputs; the chunker takes no part
Init ==
    /\ query = ""
    /\ result = None
    /\ rules = policy_rules
    /\ \/ pc = "idle" /\ entities = None /\ relevant_clauses = <<>>
       \/ /\ pc = "call"
          /\ entities \in {Some(e) : e \in EntityInputs}
          /\ relevant_clauses \in ClauseLists
    /\ cpc = "off"
    /\ cfg = [chunk_size |-> 0, overlap |-> 0]
    /\ input = ""
    /\ text = ""
    /\ start = 0
    /\ chunks = <<>>
    /\ spans = <<>>
    /\ scanned = {}
    /\ ppc = "off"
    /\ question = ""
    /\ context_chunks = <<>>
    /\ prompt = ""
    /\ qpc = "off"
    /\ bearer = None
    /\ components = NoComponents
    /\ request = None
    /\ status = 0
    /\ pdf = None
    /\ index = {}
    /\ qi = 0
    /\ answers = <<>>
    /\ explain = <<>>
    /\ metadata = None
    /\ fetches = 0
    /\ llm_calls = 0
    /\ trace = <<>>
    /\ served = 0

\* make_decision applied to a record of EntityInputs
CallMakeDecision ==
    /\ pc = "call"
    /\ result' = Some(MakeDecision(Val(entities), relevant_clauses))
    /\ pc' = "returned"
    /\ UNCHANGED <<query, entities, relevant_clauses>>
    /\ UNCHANGED <<rules, cvars, pvars, qvars>>

\* process_query, lines 51-55: the query is read and stripped; an empty
\* query is answered 400
ReceiveQuery(q) ==
    /\ pc \in {"idle", "responded"}
    /\ query' = Strip(q)
    /\ entities' = None
    /\ relevant_clauses' = <<>>
    /\ result' = None
    /\ pc' = IF Strip(q) = "" THEN "responded" ELSE "analyze"
    /\ UNCHANGED <<rules, cvars, pvars, qvars>>

\* process_query, line 60
AnalyzeQuery ==
    /\ pc = "analyze"
    /\ entities' = Some(ExtractEntities(query))
    /\ pc' = "search"
    /\ UNCHANGED <<query, relevant_clauses, result>>
    /\ UNCHANGED <<rules, cvars, pvars, qvars>>

\* process_query, line 64
SearchClauses(found) ==
    /\ pc = "search"
    /\ relevant_clauses' = found
    /\ pc' = "reason"
    /\ UNCHANGED <<query, entities, result>>
    /\ UNCHANGED <<rules, cvars, pvars, qvars>>

\* process_query, lines 68-75
Decide ==
    /\ pc = "reason"
    /\ result' = Some(MakeDecision(Val(entities), relevant_clauses))
    /\ pc' = "responded"
    /\ UNCHANGED <<query, entities, relevant_clauses>>
    /\ UNCHANGED <<rules, cvars, pvars, qvars>>

DecisionNext ==
    \/ \E q \in Queries : ReceiveQuery(q)
    \/ AnalyzeQuery
    \/ \E found \in ClauseLists : SearchClauses(found)
    \/ Decide
    \/ CallMakeDecision


\* the decision service: requests to /process, and make_decision applied to
\* every record of EntityInputs
Spec == Init /\ [][DecisionNext]_vars

(***************************************************************************)
(* Properties of the decision service                                       *)
(***************************************************************************)
\* make_decision has returned
Decided == pc \in {"returned", "responded"} /\ result # None
E == Val(entities)
R == Val(result)

\* the age gate as specified: the age is present and outside 18..70
OutsideAgeRange(age) == age # None /\ (Val(age) < 18 \/ Val(age) > 70)

IsErrorResult(r) == r.confidence = 10 /\ r.justification = "Error processing claim"

\* the duration in days as specified: value*30 for months, value*365 for
\* years, 0 without a duration
SpecifiedDays(d) ==
    IF d = None THEN 0
    ELSE IF Val(d).unit = "month" THEN Val(d).value * 30
    ELSE IF Val(d).unit = "year" THEN Val(d).value * 365
    ELSE 0

ProcedureHas(e, word) == e.procedure # None /\ Contains(word, Lower(Val(e.procedure)))
HasKnee(e) == ProcedureHas(e, "knee")
HasCritical(e) ==
    ProcedureHas(e, "heart") \/ ProcedureHas(e, "cardiac") \/ ProcedureHas(e, "cabg") \/ ProcedureHas(e, "cancer")
HasEye(e) == ProcedureHas(e, "eye") \/ ProcedureHas(e, "cataract")

\* C1 (as claimed): whenever the age is present and below 18 or above 70,
\* 0 included, make_decision returns Rejected with confidence 0.95 and no
\* amount, and the age gate's step is the last one of the trail.
C1_AgeGateRejects ==
    (Decided /\ OutsideAgeRange(E.age)) =>
        /\ R.decision = "Rejected"
        /\ R.confidence = 95
        /\ R.amount = None
        /\ R.reasoning_steps[Len(R.reasoning_steps)] = "Age validation failed"

\* C2 (as claimed): every record the age gate lets through whose procedure
\* contains heart, cardiac, cabg or cancer is Approved with confidence >= 0.9,
\* whatever the policy duration.
C2_CriticalAlwaysApproved ==
    (Decided /\ ~OutsideAgeRange(E.age) /\ HasCritical(E)) =>
        (R.decision = "Approved" /\ R.confidence >= 90)

\* C2 (amended): every record the age gate lets through whose procedure
\* contains heart, cardiac, cabg or cancer and does not contain knee is
\* Approved with confidence >= 0.9, whatever the policy duration.
C2_CriticalApprovedUnlessKnee ==
    (Decided /\ ~OutsideAgeRange(E.age) /\ HasCritical(E) /\ ~HasKnee(E)) =>
        (R.decision = "Approved" /\ R.confidence >= 90)

\* a critical-illness claim with no policy duration, or one of 0 days, decided
C2_Witness ==
    /\ Decided
    /\ ~OutsideAgeRange(E.age)
    /\ ProcedureHas(E, "cancer")
    /\ E.policy_duration # None
    /\ Val(E.policy_duration).value = 0
    /\ R.decision = "Approved"

\* C3 (as claimed): a knee (resp. eye or cataract) procedure that passes the
\* age gate is Approved if and only if the policy has run for at least 90
\* (resp. 30) days.
C3_WaitingPeriodIff ==
    (Decided /\ ~OutsideAgeRange(E.age)) =>
        /\ HasKnee(E) => (R.decision = "Approved" <=> SpecifiedDays(E.policy_duration) >= 90)
        /\ (HasEye(E) /\ ~HasKnee(E) /\ ~HasCritical(E)) =>
                (R.decision = "Approved" <=> SpecifiedDays(E.policy_duration) >= 30)

\* the nearest integer to a * num / den
RoundedProduct(a, num, den) == (2 * a * num + den) \div (2 * den)

\* the base amount of an approved claim, by procedure category
SpecifiedBase(e) ==
    IF HasKnee(e) THEN (IF e.age # None /\ Val(e.age) > 45 THEN 150000 ELSE 120000)
    ELSE IF ProcedureHas(e, "heart") \/ ProcedureHas(e, "cardiac") \/ ProcedureHas(e, "cabg") THEN 500000
    ELSE IF ProcedureHas(e, "cancer") THEN 1000000
    ELSE 60000

SpecifiedMetro(e) ==
    e.location # None /\ Lower(Val(e.location)) \in {"mumbai", "delhi", "bangalore", "chennai", "kolkata", "hyderabad"}

\* the amount after the metro step and after the age step, as specified
SpecifiedAfterMetro(e) ==
    IF SpecifiedMetro(e) THEN RoundedProduct(SpecifiedBase(e), 110, 100) ELSE SpecifiedBase(e)
SpecifiedAmount(e) ==
    IF e.age # None /\ Val(e.age) > 60 THEN RoundedProduct(SpecifiedAfterMetro(e), 115, 100)
    ELSE IF e.age # None /\ Val(e.age) < 25 THEN RoundedProduct(SpecifiedAfterMetro(e), 90, 100)
    ELSE SpecifiedAfterMetro(e)

\* C4 (as claimed): the amount of an approved claim (of an eligible age) is
\* the base amount times 1.10 in a metro city, then times 1.15 above 60 or
\* 0.90 below 25, rounded to the nearest integer after each step; 189750 for
\* age 65, Mumbai and base 150000.
C4_AdjustedAmount ==
    (Decided /\ ~OutsideAgeRange(E.age) /\ R.decision = "Approved") =>
        R.amount = Some(SpecifiedAmount(E))

\* C5 (as claimed): whichever fields are absent, the result is never the
\* internal-error result.
C5_AbsentFieldsHandled == Decided => ~IsErrorResult(R)

\* C6: make_decision always returns a result record, and when its body fails
\* the result is exactly Rejected, no amount, confidence 0.1, 'Error
\* processing claim', no source clauses, with the error message as the step
\* of the trail.
C6_ErrorsDegrade ==
    (pc \in {"returned", "responded"} /\ entities # None) =>
        /\ result # None
        /\ ~R.raised
        /\ DecisionBody(E).raised =>
              /\ R.decision = "Rejected"
              /\ R.amount = None
              /\ R.confidence = 10
              /\ R.justification = "Error processing claim"
              /\ R.source_clauses = <<>>
              /\ R.reasoning_steps = <<"Error: " \o DecisionBody(E).error>>

\* a call whose body raised has returned
C6_Witness == Decided /\ DecisionBody(E).raised /\ IsErrorResult(R)

Query46M == "46M, knee surgery, Pune, 3-month policy"
Query25M == "25M, eye surgery, Delhi, 1-month policy"

HasStep(r, step) == \E i \in 1..Len(r.reasoning_steps) : r.reasoning_steps[i] = step

\* C7: the query '46M, knee surgery, Pune, 3-month policy' is extracted as
\* age 46, Male, 'knee surgery', 3 months (90 days) and decided Approved with
\* amount 150000 and no metro, senior or young-adult adjustment.
C7_Scenario46M ==
    (query = Query46M /\ entities # None) =>
        /\ E.age = Some(46)
        /\ E.gender = Some("Male")
        /\ E.procedure = Some("knee surgery")
        /\ E.policy_duration = Some([value |-> 3, unit |-> "month"])
        /\ DurationDays(E.policy_duration) = 90
        /\ pc = "responded" =>
              /\ result # None
              /\ R.decision = "Approved"
              /\ R.amount = Some(150000)
              /\ HasStep(R, "Approved: Waiting period satisfied (90 >= 90 days)")
              /\ ~HasStep(R, "Metro city adjustment applied: +10%")
              /\ ~HasStep(R, "Senior citizen adjustment applied: +15%")
              /\ ~HasStep(R, "Young adult discount applied: -10%")

C7_Witness == query = Query46M /\ pc = "responded" /\ result # None

max_chunks_raised == 40 + 10

\* line 145
max_chunks == 40

RECURSIVE Rep(_, _)
\* s * n
Rep(s, n) ==
    IF n <= 0 THEN ""
    ELSE IF n % 2 = 0 THEN LET h == Rep(s, n \div 2) IN h \o h
    ELSE s \o Rep(s, n - 1)

RECURSIVE JoinPieces(_, _, _)
\* ''.join(pieces[lo..hi])
JoinPieces(pieces, lo, hi) ==
    IF lo > hi THEN ""
    ELSE IF lo = hi THEN pieces[lo]
    ELSE LET mid == (lo + hi) \div 2
         IN JoinPieces(pieces, lo, mid) \o JoinPieces(pieces, mid + 1, hi)

\* re.sub(r' +', ' ', text): of every run of spaces the first one stays
CollapseSpaces(s) ==
    JoinPieces([i \in 1..Len(s) |->
                    IF i > 1 /\ CharAt(s, i) = " " /\ CharAt(s, i - 1) = " " THEN "" ELSE CharAt(s, i)],
               1, Len(s))

\* the stretch of white space around position i (a white space character)
SpaceRun(s, i) ==
    {j \in 1..Len(s) : \A k \in (IF j < i THEN j ELSE i)..(IF j < i THEN i ELSE j) : IsSpace(CharAt(s, k))}

NewlinesIn(s, run) == {j \in run : CharAt(s, j) = "\n"}

\* re.sub(r'\n\s*\n\s*\n+', '\n\n', text): in a stretch of white space that
\* holds three or more newlines, the part from its first to its last newline
\* is replaced by two newlines
CollapseNewlines(s) ==
    JoinPieces([i \in 1..Len(s) |->
                    IF ~IsSpace(CharAt(s, i)) THEN CharAt(s, i)
                    ELSE LET nl == NewlinesIn(s, SpaceRun(s, i))
                         IN IF Cardinality(nl) < 3 \/ i < Min(nl) \/ i > Max(nl) THEN CharAt(s, i)
                            ELSE IF i = Min(nl) THEN "\n\n"
                            ELSE ""],
               1, Len(s))

\* _preprocess_text
PreprocessText(s) == Strip(CollapseNewlines(CollapseSpaces(s)))

\* line 137: not text or len(text.strip()) < 50
TooShort(s) == s = "" \/ Len(Strip(s)) < 50

\* text[i] in '.!?', i counted from 0
IsTerminator(s, i) == CharAt(s, i + 1) \in {".", "!", "?"}

\* SegmentEnd that stops at the first terminator of the window instead of
\* the last
SegmentEndFarthest(s, st, chunk_size) ==
    LET end == st + chunk_size
        half == st + (chunk_size \div 2)
        floor == IF half >= end - 100 THEN half ELSE end - 100
        hits == {i \in (floor + 1)..end : IsTerminator(s, i)}
    IN IF end < Len(s) /\ hits # {} THEN Min(hits) + 1 ELSE end

\* lines 148-156: the end of the segment that starts at st
SegmentEnd(s, st, chunk_size) ==
    LET end == st + chunk_size
        half == st + (chunk_size \div 2)
        floor == IF half >= end - 100 THEN half ELSE end - 100
        hits == {i \in (floor + 1)..end : IsTerminator(s, i)}
    IN IF end < Len(s) /\ hits # {} THEN Max(hits) + 1 ELSE end

\* text[st:end], both counted from 0
Slice(s, st, end) == SubSeq(s, st + 1, IF end < Len(s) THEN end ELSE Len(s))

\* line 160: chunk and len(chunk) > 50
Keeps(chunk) == chunk # "" /\ Len(chunk) > 50

\* line 163
NextStart(end, overlap) == IF end > overlap THEN end - overlap ELSE end

\* lines 136-145: the guard, the preprocessing and the loop's initialisation
SplitBegin ==
    /\ cpc = "ready"
    /\ IF TooShort(input)
       THEN /\ cpc' = "done"
            /\ text' = text
       ELSE /\ cpc' = "loop"
            /\ text' = PreprocessText(input)
    /\ start' = 0
    /\ chunks' = <<>>
    /\ spans' = <<>>
    /\ scanned' = {}
    /\ UNCHANGED <<cfg, input>>
    /\ UNCHANGED <<dvars, pvars, qvars>>

\* lines 147-166: one iteration of the loop
SplitStep ==
    /\ cpc = "loop"
    /\ start < Len(text)
    /\ Len(chunks) < max_chunks
    /\ LET end == SegmentEnd(text, start, cfg.chunk_size)
           raw == Slice(text, start, end)
           chunk == Strip(raw)
           lo == start + StripLo(raw)
           hi == start + StripHi(raw)
       IN /\ chunks' = IF Keeps(chunk) THEN Append(chunks, chunk) ELSE chunks
          /\ spans' = IF Keeps(chunk) THEN Append(spans, [lo |-> lo, hi |-> hi]) ELSE spans
          /\ scanned' = scanned \cup {[s |-> start, e |-> end, lo |-> lo, hi |-> hi, kept |-> Keeps(chunk)]}
          /\ start' = NextStart(end, cfg.overlap)
          /\ cpc' = IF NextStart(end, cfg.overlap) >= Len(text) THEN "done" ELSE "loop"
    /\ UNCHANGED <<cfg, input, text>>
    /\ UNCHANGED <<dvars, pvars, qvars>>

\* line 147 and lines 168-169: the loop's condition fails, the chunks are
\* returned
SplitReturn ==
    /\ cpc = "loop"
    /\ ~(start < Len(text) /\ Len(chunks) < max_chunks)
    /\ cpc' = "done"
    /\ UNCHANGED <<cfg, input, text, start, chunks, spans, scanned>>
    /\ UNCHANGED <<dvars, pvars, qvars>>

MinTextLen == 48
MaxTextLen == 112

\* a text of n letters with a full stop at offset dot (none when dot is
\* not an offset of the text), followed by a space when sp
Sentence(n, dot, sp) ==
    IF dot < 0 \/ dot >= n THEN Rep("a", n)
    ELSE IF sp /\ dot + 1 < n THEN Rep("a", dot) \o ". " \o Rep("a", n - dot - 2)
    ELSE Rep("a", dot) \o "." \o Rep("a", n - dot - 1)

SmallConfig == [chunk_size |-> 60, overlap |-> 5]
DenseConfig == [chunk_size |-> 60, overlap |-> 58]
WideConfig == [chunk_size |-> 220, overlap |-> 20]
OverlapConfig == [chunk_size |-> 60, overlap |-> 40]

\* the chunkers constructed and the texts they are given
ChunkInputs ==
    {[cfg |-> SmallConfig, input |-> Sentence(n, dot, sp)] :
        n \in MinTextLen..MaxTextLen, dot \in {0 - 1, 30, 31, 45, 59, 60}, sp \in BOOLEAN}
    \cup {[cfg |-> SmallConfig, input |-> t] :
            t \in {"  " \o Sentence(58, 20, TRUE) \o "  ",
                   Rep("a  ", 17),
                   Rep("ab  ", 20) \o "\n \n\n\n" \o Rep("cd ", 20),
                   "",
                   Rep(" ", 60),
                   Rep("a", 35) \o "!" \o Rep("a", 9) \o "?" \o Rep("a", 60)}}
    \cup {[cfg |-> DenseConfig, input |-> Rep("a", n)] : n \in {MaxTextLen + 26, MaxTextLen + 27}}
    \cup {[cfg |-> WideConfig, input |-> Sentence(240, dot, FALSE)] : dot \in {0 - 1, 115, 120, 121, 220}}
    \cup {[cfg |-> OverlapConfig, input |-> Sentence(MaxTextLen, dot, FALSE)] : dot \in {0 - 1, 45, 59}}

\* a chunker has been constructed and is about to split a text; the decision
\* service takes no part
ChunkInit ==
    /\ cpc = "ready"
    /\ \E c \in ChunkInputs : cfg = c.cfg /\ input = c.input
    /\ text = ""
    /\ start = 0
    /\ chunks = <<>>
    /\ spans = <<>>
    /\ scanned = {}
    /\ pc = "off"
    /\ query = ""
    /\ entities = None
    /\ relevant_clauses = <<>>
    /\ result = None
    /\ rules = policy_rules
    /\ ppc = "off"
    /\ question = ""
    /\ context_chunks = <<>>
    /\ prompt = ""
    /\ qpc = "off"
    /\ bearer = None
    /\ components = NoComponents
    /\ request = None
    /\ status = 0
    /\ pdf = None
    /\ index = {}
    /\ qi = 0
    /\ answers = <<>>
    /\ explain = <<>>
    /\ metadata = None
    /\ fetches = 0
    /\ llm_calls = 0
    /\ trace = <<>>
    /\ served = 0

ChunkNext == SplitBegin \/ SplitStep \/ SplitReturn

\* split_text_optimized applied to every input of ChunkInputs
ChunkSpec == ChunkInit /\ [][ChunkNext]_vars

(***************************************************************************)
(* Properties of the chunks                                                *)
(***************************************************************************)
\* the scanned segments whose trimmed text was not appended
Discarded == {g \in scanned : ~g.kept}

\* C9: each returned chunk has a trimmed length of at least 50 and at most
\* chunk_size characters, and a segment is discarded only when its trimmed
\* length is below 50
C9_ChunkLengthBounds ==
    /\ \A k \in 1..Len(chunks) :
          Len(chunks[k]) >= 50 /\ Len(chunks[k]) <= cfg.chunk_size
    /\ \A g \in Discarded : g.hi - g.lo < 50

\* the chunks in order, each without the characters it shares with its
\* predecessor, are text[0:hi] for the end hi of the last chunk
ReconstructsPrefix(t) ==
    /\ \A k \in 1..Len(chunks) : chunks[k] = Slice(t, spans[k].lo, spans[k].hi)
    /\ Len(chunks) > 0 => spans[1].lo = 0
    /\ \A k \in 2..Len(chunks) : spans[k].lo <= spans[k - 1].hi

\* the end of the span the chunks reconstruct
ReconstructedEnd == IF Len(chunks) = 0 THEN 0 ELSE spans[Len(chunks)].hi

\* C10: when split_text_optimized has returned, the chunks in order with
\* their overlaps removed reconstruct a contiguous span of the preprocessed
\* text from its first character, and that span is the whole text when fewer
\* than 40 chunks were returned
C10_ChunksReconstructText ==
    cpc = "done" =>
        /\ ReconstructsPrefix(PreprocessText(input))
        /\ Len(chunks) < max_chunks => ReconstructedEnd = Len(PreprocessText(input))

\* the loop is about to run an iteration (line 147)
LoopRuns == cpc = "loop" /\ start < Len(text) /\ Len(chunks) < max_chunks

\* the iteration that starts at the current position appends no chunk and
\* leaves the position where it is: start and chunks are all the loop reads,
\* so every later iteration does the same
IterationRepeats ==
    LET end == SegmentEnd(text, start, cfg.chunk_size)
    IN /\ NextStart(end, cfg.overlap) = start
       /\ ~Keeps(Strip(Slice(text, start, end)))

\* C11: split_text_optimized terminates for every text and configuration:
\* no iteration of the loop reproduces the state it started from, so the
\* scan position reaches the end of the text or the chunks reach the cap
C11_SplitTerminates == LoopRuns => ~IterationRepeats

(***************************************************************************)
(* extract_entities called on its own                                      *)
(***************************************************************************)
\* lines 112-121, the record the except clause returns (sets age to 0)
ExtractFailedZeroAge ==
    [age |-> Some(0), gender |-> None, procedure |-> None, location |-> None,
     policy_duration |-> None, amount |-> None]

\* lines 112-121: the record the except clause returns
ExtractFailed ==
    [age |-> None, gender |-> None, procedure |-> None, location |-> None,
     policy_duration |-> None, amount |-> None]

\* queries put together from an age and gender token, a procedure, a city
\* and a duration or an amount, each of which may be missing
ExtractQueries ==
    {a \o p \o c \o d :
        a \in {"", "46M, ", "7f "},
        p \in {"", "knee surgery, ", "Tumor "},
        c \in {"", "PUNE, "},
        d \in {"", "3-month policy", "2 y", "Rs. 1,500"}}

ExtractInit ==
    /\ pc = "extract"
    /\ query \in ExtractQueries
    /\ entities = None
    /\ relevant_clauses = <<>>
    /\ result = None
    /\ rules = policy_rules
    /\ cpc = "off"
    /\ cfg = [chunk_size |-> 0, overlap |-> 0]
    /\ input = ""
    /\ text = ""
    /\ start = 0
    /\ chunks = <<>>
    /\ spans = <<>>
    /\ scanned = {}
    /\ ppc = "off"
    /\ question = ""
    /\ context_chunks = <<>>
    /\ prompt = ""
    /\ qpc = "off"
    /\ bearer = None
    /\ components = NoComponents
    /\ request = None
    /\ status = 0
    /\ pdf = None
    /\ index = {}
    /\ qi = 0
    /\ answers = <<>>
    /\ explain = <<>>
    /\ metadata = None
    /\ fetches = 0
    /\ llm_calls = 0
    /\ trace = <<>>
    /\ served = 0

\* extract_entities(query), lines 34-121: the body of the try returns the
\* record it filled in, or a statement of it raises (the spaCy pipeline of
\* line 37, an int() of lines 51, 62 or 106) and the except clause returns
CallExtractEntities(raises) ==
    /\ pc = "extract"
    /\ entities' = IF raises THEN Some(ExtractFailed) ELSE Some(ExtractEntities(query))
    /\ pc' = IF raises THEN "extract_failed" ELSE "extracted"
    /\ UNCHANGED <<query, relevant_clauses, result>>
    /\ UNCHANGED <<rules, cvars, pvars, qvars>>

ExtractNext == \E raises \in BOOLEAN : CallExtractEntities(raises)

\* extract_entities applied to every query of ExtractQueries
ExtractSpec == ExtractInit /\ [][ExtractNext]_vars

EntityFields == {"age", "gender", "procedure", "location", "policy_duration", "amount"}

\* C13: extract_entities returns, for every query, a record with exactly the
\* six fields; for the empty query and after an internal error every field
\* is absent
C13_ExtractTotal ==
    pc \in {"extracted", "extract_failed"} =>
        /\ entities # None
        /\ DOMAIN E = EntityFields
        /\ (query = "" \/ pc = "extract_failed") => \A f \in EntityFields : E[f] = None

\* the except clause has returned for a query that holds entities
C13_Witness ==
    /\ pc = "extract_failed"
    /\ ExtractEntities(query).age # None
    /\ E = ExtractFailed

(***************************************************************************)
(* Properties of the reasoning trail                                       *)
(***************************************************************************)
\* the positions of the trail t whose step starts with prefix
StepsOf(t, prefix) == {i \in 1..Len(t) : StartsWith(t[i], prefix)}

Before(S, T) == \A i \in S, j \in T : i < j

\* the trail t of a result for the entities e that is not the internal-error
\* result: one analysis step, the duration step if a duration is present,
\* the steps of the gate or branch that decided, the metro step, the age
\* step, the final step, in this order, each at most once and nothing else
TrailInOrder(e, r) ==
    LET t == r.reasoning_steps
        analysis == StepsOf(t, "Analyzing query for: Age=")
        duration == StepsOf(t, "Policy duration: ")
        stopped == StepsOf(t, "Age validation failed") \cup StepsOf(t, "No procedure identified")
        processing == StepsOf(t, "Processing ")
        verdict == StepsOf(t, "Approved: ") \cup StepsOf(t, "Rejected: ")
        metro == StepsOf(t, "Metro city adjustment applied")
        aged == StepsOf(t, "Senior citizen adjustment applied") \cup StepsOf(t, "Young adult discount applied")
        final == StepsOf(t, "Final decision: " \o r.decision \o ", Amount: ")
        kinds == <<analysis, duration, stopped, processing, verdict, metro, aged, final>>
    IN /\ \A k \in 1..Len(kinds) : Cardinality(kinds[k]) <= 1
       /\ \A i \in 1..Len(t) : \E k \in 1..Len(kinds) : i \in kinds[k]
       /\ \A k \in 1..Len(kinds) : \A m \in (k + 1)..Len(kinds) : Before(kinds[k], kinds[m])
       /\ analysis = {1}
       /\ duration = (IF e.policy_duration # None THEN {2} ELSE {})
       /\ stopped # {} => stopped = {Len(t)} /\ processing = {} /\ final = {}
       /\ stopped = {} => final = {Len(t)}
       /\ processing # {} <=> verdict # {}
       /\ stopped = {} => (processing # {} <=> (HasKnee(e) \/ HasCritical(e) \/ HasEye(e)))
       /\ metro # {} <=> (r.decision = "Approved" /\ SpecifiedMetro(e))
       /\ aged # {} <=> (r.decision = "Approved" /\ e.age # None
                          /\ (Val(e.age) \in 18..24 \/ Val(e.age) \in 61..70))

\* C18: in every result of make_decision that is not the internal-error
\* result the trail lists the analysis step, the policy-duration step when a
\* duration is present, the steps of the gate that decided, the metro step
\* before the age step, and (unless the age gate or the procedure gate ended
\* the call) the final-decision step last, none dropped or repeated
C18_TrailInOrder == (Decided /\ ~IsErrorResult(R)) => TrailInOrder(E, R)

\* an approved claim with both adjustments and a policy duration
C18_Witness ==
    /\ Decided
    /\ ~IsErrorResult(R)
    /\ E.policy_duration # None
    /\ StepsOf(R.reasoning_steps, "Metro city adjustment applied") # {}
    /\ StepsOf(R.reasoning_steps, "Senior citizen adjustment applied") # {}
    /\ Len(R.reasoning_steps) = 7

\* the adjustment steps of the trail t
AdjustmentSteps(t) ==
    StepsOf(t, "Metro city adjustment applied") \cup StepsOf(t, "Senior citizen adjustment applied")
        \cup StepsOf(t, "Young adult discount applied")

TerminatorsIn(lo, hi) ==
    {i \in lo..hi : i >= 0 /\ i < Len(text) /\ CharAt(text, i + 1) \in {".", "!", "?"}}

\* the segment g ends just after the terminator of the window nearest to
\* the naive end, or at the naive end when the naive end is not before the
\* end of the text or the window holds no terminator
SnapsWithin(g, window) ==
    LET naive == g.s + cfg.chunk_size
    IN IF naive < Len(text) /\ window # {} THEN g.e = Max(window) + 1 ELSE g.e = naive

\* C20 (as claimed): the window of the search reaches from the naive end
\* down to half a chunk size before it
C20_SnapsWithinHalfChunk ==
    \A g \in scanned :
        LET naive == g.s + cfg.chunk_size
        IN SnapsWithin(g, TerminatorsIn(naive - (cfg.chunk_size \div 2), naive))

\* the window the search covers: the offsets up to the naive end that are
\* more than chunk_size // 2 after the segment's start and less than 100
\* before the naive end
SearchWindow(g) ==
    LET naive == g.s + cfg.chunk_size
    IN {i \in TerminatorsIn(naive - 99, naive) : i > g.s + (cfg.chunk_size \div 2)}

\* C20 (amended): the chunk ends just after the terminator nearest to the
\* naive end among those at most 99 characters before the naive end and
\* more than chunk_size // 2 after the start; otherwise at the naive end
C20_SnapsWithinWindow == \A g \in scanned : SnapsWithin(g, SearchWindow(g))

\* a segment was cut at the nearer of the two terminators of its window
C20_Witness ==
    \E g \in scanned : Cardinality(SearchWindow(g)) >= 2 /\ g.e = Max(SearchWindow(g)) + 1

(***************************************************************************)
(* LLMClient._create_optimized_prompt (src/llm.py)                         *)
(***************************************************************************)
max_context_length == 2000

\* context_chunks[:3]
FirstThree(cs) == SubSeq(cs, 1, IF Len(cs) < 3 THEN Len(cs) ELSE 3)

RECURSIVE PromptPartsSkipping(_, _, _, _)
\* PromptParts with `continue` in the place of `break`
PromptPartsSkipping(cs, i, current_length, context_parts) ==
    IF i > Len(cs) THEN context_parts
    ELSE IF current_length + Len(cs[i]) > max_context_length
    THEN PromptPartsSkipping(cs, i + 1, current_length, context_parts)
    ELSE PromptPartsSkipping(cs, i + 1, current_length + Len(cs[i]),
                             Append(context_parts, "Context " \o ToString(i) \o ": " \o cs[i]))

RECURSIVE PromptParts(_, _, _, _)
\* lines 34-38: the loop over enumerate(cs), from its i-th element (i counted
\* from 1, so that the label is Context i)
PromptParts(cs, i, current_length, context_parts) ==
    IF i > Len(cs) THEN context_parts
    ELSE IF current_length + Len(cs[i]) > max_context_length THEN context_parts
    ELSE PromptParts(cs, i + 1, current_length + Len(cs[i]),
                     Append(context_parts, "Context " \o ToString(i) \o ": " \o cs[i]))

RECURSIVE JoinWith(_, _)
\* sep.join(parts)
JoinWith(sep, parts) ==
    IF Len(parts) = 0 THEN ""
    ELSE IF Len(parts) = 1 THEN parts[1]
    ELSE parts[1] \o sep \o JoinWith(sep, Tail(parts))

\* lines 42-56: the f-string
PromptTemplate(q, context) ==
    "Based on the provided context, answer the question directly and concisely.\n\nContext:\n"
        \o context
        \o "\n\nQuestion: " \o q
        \o "\n\nInstructions:\n- Use only the provided context\n- Be direct and specific\n"
        \o "- If information is insufficient, state clearly\n- Keep answer under 200 words\n\n"
        \o "ANSWER: [Your answer here]\nREASONING: [Brief explanation]"

\* _create_optimized_prompt(q, cs)
CreateOptimizedPrompt(q, cs) ==
    PromptTemplate(q, JoinWith("\n\n", PromptParts(FirstThree(cs), 1, 0, <<>>)))

MaxContextChunks == 4

\* the chunks handed to the prompt builder, of lengths around the cap
ContextTexts == {Rep("a", 600), Rep("b", 700), Rep("c", 1000), Rep("d", 1001), Rep("e", 2001)}

RECURSIVE ListsOf(_, _)
\* the lists of at most n elements of S
ListsOf(S, n) ==
    IF n = 0 THEN {<<>>}
    ELSE LET shorter == ListsOf(S, n - 1)
         IN shorter \cup {Append(l, x) : l \in {m \in shorter : Len(m) = n - 1}, x \in S}

PromptInit ==
    /\ ppc = "call"
    /\ question = "Is knee surgery covered?"
    /\ context_chunks \in ListsOf(ContextTexts, MaxContextChunks)
    /\ prompt = ""
    /\ pc = "off"
    /\ query = ""
    /\ entities = None
    /\ relevant_clauses = <<>>
    /\ result = None
    /\ rules = policy_rules
    /\ cpc = "off"
    /\ cfg = [chunk_size |-> 0, overlap |-> 0]
    /\ input = ""
    /\ text = ""
    /\ start = 0
    /\ chunks = <<>>
    /\ spans = <<>>
    /\ scanned = {}
    /\ qpc = "off"
    /\ bearer = None
    /\ components = NoComponents
    /\ request = None
    /\ status = 0
    /\ pdf = None
    /\ index = {}
    /\ qi = 0
    /\ answers = <<>>
    /\ explain = <<>>
    /\ metadata = None
    /\ fetches = 0
    /\ llm_calls = 0
    /\ trace = <<>>
    /\ served = 0

\* _create_optimized_prompt(question, context_chunks) returns
CallCreatePrompt ==
    /\ ppc = "call"
    /\ prompt' = CreateOptimizedPrompt(question, context_chunks)
    /\ ppc' = "returned"
    /\ UNCHANGED <<question, context_chunks>>
    /\ UNCHANGED <<dvars, cvars, qvars>>

PromptNext == CallCreatePrompt

\* _create_optimized_prompt applied to every list of ContextTexts
PromptSpec == PromptInit /\ [][PromptNext]_vars

\* the prompt that holds the first k chunks of cs, labelled in order
PromptOfFirst(q, cs, k) ==
    PromptTemplate(q, JoinWith("\n\n", [i \in 1..k |-> "Context " \o ToString(i) \o ": " \o cs[i]]))

RECURSIVE TotalLength(_, _)
\* the total length of the first k chunks of cs
TotalLength(cs, k) == IF k = 0 THEN 0 ELSE TotalLength(cs, k - 1) + Len(cs[k])

\* the numbers k of leading chunks, at most three, that the prompt may hold
\* so that it holds exactly the first k chunks
IncludedCounts ==
    {k \in 0..(IF Len(context_chunks) < 3 THEN Len(context_chunks) ELSE 3) :
        prompt = PromptOfFirst(question, context_chunks, k)}

\* C17 (as claimed): the prompt holds exactly a prefix of the first three
\* chunks, in order, whose total length is under 2000
C17_PromptUnderCap ==
    ppc = "returned" =>
        \E k \in IncludedCounts : TotalLength(context_chunks, k) < 2000

\* C17 (amended): the prompt holds exactly a prefix of the first three
\* chunks, in order, whose total length is at most 2000
C17_PromptWithinCap ==
    ppc = "returned" =>
        \E k \in IncludedCounts : TotalLength(context_chunks, k) <= 2000

\* a prompt that holds two chunks of 2000 characters together and leaves
\* out a third one
C17_Witness ==
    /\ ppc = "returned"
    /\ Len(context_chunks) >= 3
    /\ IncludedCounts = {2}
    /\ TotalLength(context_chunks, 2) = 2000

(***************************************************************************)
(* LLMClient.generate_answer_optimized (src/llm.py)                        *)
(***************************************************************************)
\* the offsets (from 0) at which sub occurs in s
Occurrences(sub, s) == {i \in 0..(Len(s) - Len(sub)) : SubSeq(s, i + 1, i + Len(sub)) = sub}

RECURSIVE RemoveAll(_, _)
\* s.replace(sub, "")
RemoveAll(s, sub) ==
    IF Occurrences(sub, s) = {} THEN s
    ELSE LET i == Min(Occurrences(sub, s))
         IN SubSeq(s, 1, i) \o RemoveAll(SubSeq(s, i + Len(sub) + 1, Len(s)), sub)

\* s.split(sep)[0]
SplitHead(s, sep) ==
    IF Occurrences(sep, s) = {} THEN s ELSE SubSeq(s, 1, Min(Occurrences(sep, s)))

\* sep.join(s.split(sep)[1:]), for an s that holds sep
SplitRest(s, sep) == SubSeq(s, Min(Occurrences(sep, s)) + Len(sep) + 1, Len(s))

\* lines 95-106: the answer and the reasoning parsed from the content of
\* the first choice
ParseContent(raw) ==
    LET content == Strip(raw)
    IN IF Contains("ANSWER:", content) /\ Contains("REASONING:", content)
       THEN [answer |-> Strip(RemoveAll(SplitHead(content, "REASONING:"), "ANSWER:")),
             reasoning |-> Strip(SplitHead(SplitRest(content, "REASONING:"), "REASONING:"))]
       ELSE [answer |-> content, reasoning |-> "Generated response without explicit reasoning"]

\* generate_answer_optimized(question, cs), lines 60-115, when the API
\* behaves as reply says: the request fails (network), the status is not 200
\* (status), the body has no choices (empty), the body is not what the code
\* reads (malformed), or the first choice holds reply.content
GenerateAnswerOptimized(reply, cs) ==
    IF Len(cs) = 0
    THEN [answer |-> "I cannot find sufficient information to answer this question.",
          reasoning |-> "No relevant context found"]
    ELSE IF reply.kind = "network"
    THEN [answer |-> "Network error occurred", reasoning |-> "Connection issue"]
    ELSE IF reply.kind = "status"
    THEN [answer |-> "Error generating response", reasoning |-> "API error"]
    ELSE IF reply.kind = "empty"
    THEN [answer |-> "No response generated", reasoning |-> "Empty API response"]
    ELSE IF reply.kind = "malformed"
    THEN [answer |-> "Error generating answer", reasoning |-> "Processing error"]
    ELSE ParseContent(reply.content)

(***************************************************************************)
(* The /hackrx/run handler (src/main.py): the steps on one answer          *)
(***************************************************************************)
Fallback == "I cannot find sufficient information to answer this question."

\* lines 159-160
StripAnswerMarker(answer) ==
    IF answer # "" /\ StartsWith(Lower(Prefix(Strip(answer), 7)), "answer:")
    THEN Strip(IF Occurrences("ANSWER:", answer) = {} THEN answer ELSE SplitRest(answer, "ANSWER:"))
    ELSE answer

\* lines 162-163
OrFallback(answer) == IF answer = "" \/ Len(Strip(answer)) < 5 THEN Fallback ELSE answer

\* LimitAnswer that cuts at 500 characters marker included
LimitAnswerInclusive(answer) ==
    IF Len(answer) > 500 THEN SubSeq(answer, 1, 497) \o "..." ELSE answer

\* lines 166-167
LimitAnswer(answer) ==
    IF Len(answer) > 500 THEN SubSeq(answer, 1, 500) \o "..." ELSE answer

\* lines 158-167: the answer appended for what generate_answer_optimized
\* returned
CleanAnswer(answer) == LimitAnswer(OrFallback(StripAnswerMarker(answer)))

(***************************************************************************)
(* VectorStore (src/vector.py)                                             *)
(***************************************************************************)
\* line 103: hashlib.md5(doc_title.encode()).hexdigest()[:12], a function of
\* the title alone
DocId(title) == "md5:" \o title

\* lines 111-125: the vectors built for the chunks cs of the document title
\* (the embedding values are left out)
VectorsOf(cs, title) ==
    {[id |-> [doc_id |-> DocId(title), chunk_index |-> i - 1],
      doc_title |-> Prefix(title, 100),
      text |-> Prefix(cs[i], 1000),
      chunk_length |-> Len(cs[i])] : i \in 1..Len(cs)}

upsert_batch_size == 25

\* index.upsert(vectors=batch): a vector replaces the one with its id
Upsert(idx, batch) == {v \in idx : \A w \in batch : w.id # v.id} \cup batch

\* lines 128-139: the index after the batches before number `failing` (from
\* 0) were upserted; failing = None when no upsert raises
StoredIndex(idx, cs, title, failing) ==
    Upsert(idx, {v \in VectorsOf(cs, title) :
                    failing = None \/ v.id.chunk_index \div upsert_batch_size < Val(failing)})

\* the number of batches the chunks cs are upserted in
BatchCount(cs) == (Len(cs) + upsert_batch_size - 1) \div upsert_batch_size

\* the vector of idx with the id [d, i]
VectorAt(idx, d, i) == CHOOSE v \in idx : v.id = [doc_id |-> d, chunk_index |-> i]
HasVector(idx, d, i) == \E v \in idx : v.id = [doc_id |-> d, chunk_index |-> i]

\* a match as query_similar_chunks_with_scores reads it: the text of the
\* vector's metadata and its score (in hundredths)
Match(idx, d, i, score) ==
    [doc_id |-> d, chunk_index |-> i, text |-> VectorAt(idx, d, i).text, score |-> score]

\* lines 148-175: what a query may return, best match first: nothing (no
\* match, or the embedding or the query raised), the first chunk of a stored
\* document, or the first three chunks of one
Retrievals(idx) ==
    {<<>>}
    \cup {<<Match(idx, d, 0, 90)>> : d \in {v.id.doc_id : v \in {w \in idx : w.id.chunk_index = 0}}}
    \cup {<<Match(idx, d, 0, 50), Match(idx, d, 1, 40), Match(idx, d, 2, 30)>> :
            d \in {v.id.doc_id : v \in {w \in idx : w.id.chunk_index = 0 /\ HasVector(idx, w.id.doc_id, 1)
                                                      /\ HasVector(idx, w.id.doc_id, 2)}}}

(***************************************************************************)
(* The /hackrx/run endpoint (src/main.py)                                  *)
(***************************************************************************)
\* line 61: TextChunker(chunk_size=600, overlap=100)
DeployedConfig == [chunk_size |-> 600, overlap |-> 100]

\* lines 76-77: not (not expected_token or token != expected_token);
\* expected is None when BEARER_TOKEN is not set
Verified(expected, token) == expected # None /\ Val(expected) # "" /\ token = Val(expected)

\* lines 49-63, the globals after the call: nothing is constructed once
\* vector_store is set; failing names the constructor that raises
GetComponents(c, failing) ==
    IF c.vector_store THEN c
    ELSE IF failing = "vector_store" THEN c
    ELSE IF failing = "llm_client" THEN [c EXCEPT !.vector_store = TRUE]
    ELSE [vector_store |-> TRUE, llm_client |-> TRUE, pdf_processor |-> TRUE, text_chunker |-> TRUE]

\* lines 53-61: the call raises when a constructor it runs raises
GetComponentsRaises(c, failing) == ~c.vector_store /\ failing # "none"

\* lines 131-132
LimitChunks(cs) == IF Len(cs) > 50 THEN SubSeq(cs, 1, 50) ELSE cs

NoContentReasoning == "No relevant content found in the document."

\* lines 149-167: the answer and the reasoning for the retrieved texts
AnswerFor(texts, reply) ==
    IF Len(texts) = 0
    THEN [answer |-> Fallback, reasoning |-> NoContentReasoning]
    ELSE LET g == GenerateAnswerOptimized(reply, texts)
         IN [answer |-> CleanAnswer(g.answer), reasoning |-> g.reasoning]

\* lines 171-176: the entry of explainability_data
Explainability(matches, reasoning) ==
    [relevant_chunks |-> Len(matches),
     chunk_scores |-> [k \in 1..Min({3, Len(matches)}) |-> matches[k].score],
     reasoning |-> IF reasoning # "" THEN Prefix(reasoning, 200) ELSE "No reasoning provided",
     confidence |-> IF \E k \in 1..Len(matches) : matches[k].score > 80 THEN "high" ELSE "medium"]

\* AnswersAppend that leaves out an answer that is the fallback
AnswersAppendUnlessFallback(list, answer) == IF answer = Fallback THEN list ELSE Append(list, answer)

\* line 169: answers.append(answer)
AnswersAppend(list, answer) == Append(list, answer)

\* explainability_data[question] = entry
SetItem(d, key, entry) == [k \in DOMAIN d \cup {key} |-> IF k = key THEN entry ELSE d[k]]

\* the number of requests the endpoint serves in a run
MaxRequests == 2

\* the value of BEARER_TOKEN: not set, empty, or a secret
BearerTokens == {None, Some(""), Some("secret")}

ShortUrl == "https://example.com/short.pdf"
PolicyUrl == "https://example.com/policy.pdf"
HandbookUrl == "https://example.com/handbook.pdf"

PolicySentence == "Knee surgery is covered after two years of cover."

\* the text and the title extract_text_from_url returns for a URL (the text
\* as _clean_text leaves it): 99 characters, 699 characters, and 21,000
\* characters, more than forty chunks of 600 hold
DocumentAt(url) ==
    IF url = ShortUrl THEN [text |-> Rep("a", 98) \o ".", title |-> "Short"]
    ELSE IF url = PolicyUrl THEN [text |-> Rep(PolicySentence \o " ", 13) \o PolicySentence, title |-> "Policy"]
    ELSE [text |-> Rep(Rep("a", 49) \o ".", 420), title |-> "Handbook"]

Q1 == "Is knee surgery covered?"
Q2 == "What is the waiting period?"

\* the requests a client sends: token is None when the request carries no
\* Authorization header
Requests ==
    {[token |-> t, pdf_url |-> PolicyUrl, questions |-> <<Q1>>] : t \in {None, Some("wrong"), Some("secret")}}
    \cup {[token |-> Some("secret"), pdf_url |-> PolicyUrl, questions |-> qs] :
            qs \in {<<>>, <<Q1, Q2>>, <<Q1, Q1>>, <<Q1, Q2, Q1, Q2, Q1, Q2>>}}
    \cup {[token |-> Some("secret"), pdf_url |-> u, questions |-> <<Q1>>] : u \in {ShortUrl, HandbookUrl}}

\* what the chat completion API does with a request
LLMReplies ==
    {[kind |-> k, content |-> ""] : k \in {"network", "status", "empty", "malformed"}}
    \cup {[kind |-> "content", content |-> c] :
            c \in {"ANSWER: Yes, knee surgery is covered. REASONING: Context 1 says so.",
                   "Yes.",
                   "answer: yes, it is covered",
                   "ANSWER: " \o Rep("x", 500),
                   "ANSWER: " \o Rep("x", 501),
                   Rep("y", 600)}}

\* the service has started: no component is constructed, the index is empty
QAInit ==
    /\ qpc = "idle"
    /\ bearer \in BearerTokens
    /\ components = NoComponents
    /\ request = None
    /\ status = 0
    /\ pdf = None
    /\ index = {}
    /\ qi = 0
    /\ answers = <<>>
    /\ explain = <<>>
    /\ metadata = None
    /\ fetches = 0
    /\ llm_calls = 0
    /\ trace = <<>>
    /\ served = 0
    /\ pc = "off"
    /\ query = ""
    /\ entities = None
    /\ relevant_clauses = <<>>
    /\ result = None
    /\ rules = policy_rules
    /\ cpc = "off"
    /\ cfg = [chunk_size |-> 0, overlap |-> 0]
    /\ input = ""
    /\ text = ""
    /\ start = 0
    /\ chunks = <<>>
    /\ spans = <<>>
    /\ scanned = {}
    /\ ppc = "off"
    /\ question = ""
    /\ context_chunks = <<>>
    /\ prompt = ""

\* a request arrives: what an earlier request left in the handler's locals
\* is gone; fetches and llm_calls count the calls made for this request
Arrive(req) ==
    /\ qpc \in {"idle", "responded"}
    /\ served < MaxRequests
    /\ served' = served + 1
    /\ request' = Some(req)
    /\ pdf' = None
    /\ qi' = 0
    /\ answers' = <<>>
    /\ explain' = <<>>
    /\ metadata' = None
    /\ fetches' = 0
    /\ llm_calls' = 0
    /\ trace' = <<>>
    /\ cpc' = "off"
    /\ cfg' = [chunk_size |-> 0, overlap |-> 0]
    /\ input' = ""
    /\ text' = ""
    /\ start' = 0
    /\ chunks' = <<>>
    /\ spans' = <<>>
    /\ scanned' = {}
    /\ UNCHANGED <<bearer, dvars, pvars>>

\* lines 32 and 100: a request without credentials is answered by the
\* HTTPBearer dependency, and process_pdf_qa does not run; the status is 403
\* or 401, as the installed FastAPI has it
RejectUnauthenticated(req, code) ==
    /\ Arrive(req)
    /\ req.token = None
    /\ status' = code
    /\ qpc' = "responded"
    /\ UNCHANGED <<components, index>>

\* lines 103-114: the token is verified, the questions are counted, the
\* components are set up
QAReceive(req, failing) ==
    /\ Arrive(req)
    /\ req.token # None
    /\ IF ~Verified(bearer, Val(req.token))
       THEN /\ status' = 401
            /\ qpc' = "responded"
            /\ UNCHANGED components
       ELSE IF Len(req.questions) > 5
       THEN /\ status' = 400
            /\ qpc' = "responded"
            /\ UNCHANGED components
       ELSE /\ components' = GetComponents(components, failing)
            /\ IF GetComponentsRaises(components, failing)
               THEN status' = 500 /\ qpc' = "responded"
               ELSE status' = 0 /\ qpc' = "fetch"
    /\ UNCHANGED index

\* lines 119-122: the text of the document is extracted; fails when
\* extract_text_from_url raises
QAFetch(fails) ==
    /\ qpc = "fetch"
    /\ IF ~components.pdf_processor
       THEN /\ status' = 500
            /\ qpc' = "responded"
            /\ UNCHANGED <<pdf, fetches, cvars>>
       ELSE /\ fetches' = fetches + 1
            /\ IF fails
               THEN /\ status' = 500
                    /\ qpc' = "responded"
                    /\ UNCHANGED <<pdf, cvars>>
               ELSE LET doc == DocumentAt(Val(request).pdf_url)
                    IN /\ pdf' = Some(doc)
                       /\ IF doc.text = "" \/ Len(Strip(doc.text)) < 100
                          THEN /\ status' = 400
                               /\ qpc' = "responded"
                               /\ UNCHANGED cvars
                          ELSE /\ status' = 0
                               /\ qpc' = "chunk"
                               /\ cpc' = "ready"
                               /\ cfg' = DeployedConfig
                               /\ input' = doc.text
                               /\ UNCHANGED <<text, start, chunks, spans, scanned>>
    /\ UNCHANGED <<bearer, components, request, index, qi, answers, explain, metadata,
                   llm_calls, trace, served>>
    /\ UNCHANGED <<dvars, pvars>>

\* lines 125-136: split_text_optimized has returned; the chunks are limited
\* and stored. failing is the number (from 0) of the upsert that raises, a
\* failure of the embedding counting as one of the first
QAStore(failing) ==
    /\ qpc = "chunk"
    /\ cpc = "done"
    /\ IF chunks = <<>>
       THEN /\ failing = None
            /\ status' = 400
            /\ qpc' = "responded"
            /\ UNCHANGED <<index, qi>>
       ELSE /\ IF failing = None THEN TRUE ELSE Val(failing) < BatchCount(LimitChunks(chunks))
            /\ index' = StoredIndex(index, LimitChunks(chunks), Val(pdf).title, failing)
            /\ IF failing = None
               THEN status' = 0 /\ qpc' = "questions" /\ qi' = 1
               ELSE status' = 500 /\ qpc' = "responded" /\ qi' = qi
    /\ UNCHANGED <<bearer, components, request, pdf, answers, explain, metadata,
                   fetches, llm_calls, trace, served>>
    /\ UNCHANGED <<dvars, cvars, pvars>>

\* lines 142-180: one iteration of the loop over the questions, the index
\* returning matches (none when the retrieval failed or found nothing) and
\* the API replying with reply. Both awaited calls
\* catch every exception themselves, so the except clause of lines 182-188
\* has nothing to catch
QAAnswer(matches, reply) ==
    /\ qpc = "questions"
    /\ qi <= Len(Val(request).questions)
    /\ LET q == Val(request).questions[qi]
           texts == [k \in 1..Len(matches) |-> matches[k].text]
           a == AnswerFor(texts, reply)
       IN /\ answers' = AnswersAppend(answers, a.answer)
          /\ explain' = SetItem(explain, q, Explainability(matches, a.reasoning))
          /\ llm_calls' = IF Len(matches) = 0 THEN llm_calls ELSE llm_calls + 1
          /\ trace' = Append(trace,
                             [question |-> q,
                              matches |-> [k \in 1..Len(matches) |->
                                              [doc_id |-> matches[k].doc_id,
                                               chunk_index |-> matches[k].chunk_index]],
                              failure |-> IF Len(matches) = 0 THEN "retrieval"
                                          ELSE IF reply.kind # "content" THEN reply.kind
                                          ELSE "none",
                              generated |-> IF Len(matches) = 0 THEN None
                                            ELSE Some(GenerateAnswerOptimized(reply, texts).answer)])
    /\ qi' = qi + 1
    /\ UNCHANGED <<qpc, bearer, components, request, status, pdf, index, metadata, fetches, served>>
    /\ UNCHANGED <<dvars, cvars, pvars>>

\* lines 190-205: the response; chunks is deleted at line 193, so line 200
\* reports 0 chunks
QARespond ==
    /\ qpc = "questions"
    /\ qi > Len(Val(request).questions)
    /\ status' = 200
    /\ metadata' = Some([pdf_title |-> Val(pdf).title,
                         chunks_processed |-> 0,
                         questions_processed |-> Len(Val(request).questions)])
    /\ qpc' = "responded"
    /\ UNCHANGED <<bearer, components, request, pdf, index, qi, answers, explain,
                   fetches, llm_calls, trace, served>>
    /\ UNCHANGED <<dvars, cvars, pvars>>

QANext ==
    \/ \E req \in Requests, code \in {401, 403} : RejectUnauthenticated(req, code)
    \/ \E req \in Requests, failing \in {"none", "vector_store", "llm_client"} : QAReceive(req, failing)
    \/ \E fails \in BOOLEAN : QAFetch(fails)
    \/ SplitBegin
    \/ SplitStep
    \/ SplitReturn
    \/ \E failing \in {None, Some(0), Some(1)} : QAStore(failing)
    \/ \E matches \in Retrievals(index), reply \in LLMReplies : QAAnswer(matches, reply)
    \/ QARespond

QASpec == QAInit /\ [][QANext]_vars

(***************************************************************************)
(* Properties of the /hackrx/run endpoint                                  *)
(***************************************************************************)
\* the vectors the index holds for the document d
StoredFor(d) == {v \in index : v.id.doc_id = d}

\* C12: split_text_optimized returns at most 40 chunks, producing none after
\* the fortieth even when text remains, and the index never holds more than
\* 40 chunks of one document
C12_AtMostFortyChunks ==
    /\ Len(chunks) <= 40
    /\ \A v \in index : Cardinality(StoredFor(v.id.doc_id)) <= 40

\* the chunker stopped at 40 chunks with text left, and the 40 are stored
C12_Witness ==
    /\ qpc = "questions"
    /\ cpc = "done"
    /\ Len(chunks) = 40
    /\ start < Len(text)
    /\ Cardinality(StoredFor(DocId("Handbook"))) = 40

\* the answer the handler returns for the answer a the generation produced
\* and cleaned (lines 159-163), as C16 has it
Bounded(a) == IF Len(a) > 500 THEN SubSeq(a, 1, 500) \o "..." ELSE a

\* C16: an answer longer than 500 characters is returned as its first 500
\* characters followed by '...', an answer of at most 500 characters is
\* returned unchanged, and no returned answer is longer than 503 characters
C16_AnswersBounded ==
    \A k \in 1..Len(answers) :
        /\ Len(answers[k]) <= 503
        /\ trace[k].generated # None =>
              answers[k] = Bounded(OrFallback(StripAnswerMarker(Val(trace[k].generated))))

\* the response holds an answer that was cut and one that was as long as
\* allowed and was not
C16_Witness ==
    /\ qpc = "responded"
    /\ status = 200
    /\ Len(answers) = 2
    /\ trace[1].generated = Some("ANSWER: " \o Rep("x", 501))
    /\ answers[1] = Rep("x", 500) \o "..."
    /\ trace[2].generated = Some("ANSWER: " \o Rep("x", 500))
    /\ answers[2] = Rep("x", 500)

\* the answer the handler returns for the k-th question, from what the
\* retrieval and the generation gave for it
AnswerOf(k) ==
    IF trace[k].generated = None THEN Fallback
    ELSE LimitAnswer(OrFallback(StripAnswerMarker(Val(trace[k].generated))))

\* the questions of the request being served
Questions == Val(request).questions

\* C14: once the document is ingested the request is answered with one
\* answer per question, in the order of the questions, whatever the
\* retrieval and the generation did for each of them: while the questions
\* are processed the k-th answer is the answer to the k-th question, and the
\* response holds all of them
C14_OneAnswerPerQuestion ==
    /\ qpc = "questions" =>
          /\ qi \in 1..(Len(Questions) + 1)
          /\ Len(answers) = qi - 1
    /\ (qpc = "responded" /\ qi >= 1) =>
          /\ status = 200
          /\ Len(answers) = Len(Questions)
    /\ Len(trace) = Len(answers)
    /\ \A k \in 1..Len(answers) :
          /\ trace[k].question = Questions[k]
          /\ answers[k] = AnswerOf(k)

\* the generation failed for the first question and the second one was
\* answered from the document
C14_Witness ==
    /\ qpc = "responded"
    /\ status = 200
    /\ Questions = <<Q1, Q2>>
    /\ trace[1].generated = Some("Network error occurred")
    /\ answers[1] = "Network error occurred"
    /\ trace[2].generated = Some("Yes, knee surgery is covered.")
    /\ answers[2] = "Yes, knee surgery is covered."

\* the request req presents the configured token
TokenVerified(req) == req.token # None /\ Verified(bearer, Val(req.token))

\* a step on which a document is fetched, vectors are stored, the API is
\* called or a component is constructed
DoesWork ==
    \/ fetches' > fetches
    \/ llm_calls' > llm_calls
    \/ index' # index
    \/ components' # components

\* C15: the document is fetched, chunks are stored and the LLM is called
\* only for a request whose token equals the configured BEARER_TOKEN; a
\* request whose token is missing or differs is answered 401 and changes
\* nothing
C15_VerifiedBeforeWork ==
    [][/\ DoesWork => TokenVerified(Val(request'))
       /\ (served' = served + 1 /\ ~TokenVerified(Val(request'))) =>
             /\ status' = 401
             /\ qpc' = "responded"
             /\ ~DoesWork]_vars

(***************************************************************************)
(* The order of the scan (TextChunker)                                     *)
(***************************************************************************)
\* the characters the k-th and the (k+1)-th chunk share
SharedChars(k) == Max({0, spans[k].hi - spans[k + 1].lo})

\* C21: the segment after the one scanned from start begins strictly after
\* start and at no negative offset, and two consecutive chunks share at most
\* overlap characters
C21_ScanMovesForward ==
    /\ LoopRuns =>
          LET end == SegmentEnd(text, start, cfg.chunk_size)
          IN /\ NextStart(end, cfg.overlap) > start
             /\ NextStart(end, cfg.overlap) >= 0
    /\ \A k \in 1..(Len(chunks) - 1) : SharedChars(k) <= cfg.overlap

(***************************************************************************)
(* Failures while a question is answered                                   *)
(***************************************************************************)
\* C22: when the retrieval or the generation failed for a question, the
\* answer returned for it is the fallback message and its explainability
\* entry records the error
C22_FailuresFallBack ==
    \A k \in 1..Len(answers) :
        trace[k].failure # "none" =>
            /\ answers[k] = Fallback
            /\ "error" \in DOMAIN explain[trace[k].question]

(***************************************************************************)
(* The amount of a decision                                                *)
(***************************************************************************)
\* C23: a result carries an amount, a positive integer, exactly when its
\* decision is Approved; a Rejected result, the one returned after an
\* internal error included, has no amount and no adjustment step
C23_AmountIffApproved ==
    Decided =>
        /\ R.decision \in {"Approved", "Rejected"}
        /\ R.decision = "Approved" <=> R.amount # None
        /\ R.amount # None => Val(R.amount) \in Nat \ {0}
        /\ R.decision = "Rejected" => AdjustmentSteps(R.reasoning_steps) = {}

\* a heart surgery claim of a senior in a metro city has been approved with
\* an adjusted amount
C23_Witness ==
    /\ Decided
    /\ E.procedure = Some("Heart Surgery")
    /\ E.age = Some(65)
    /\ E.location = Some("Mumbai")
    /\ R.decision = "Approved"
    /\ R.amount # None
    /\ AdjustmentSteps(R.reasoning_steps) # {}

SurfaceForms(c) == {medical_patterns[c][p] : p \in 1..Len(medical_patterns[c])}

\* the step with which make_decision enters the branch of the c-th category
\* (knee_surgery, heart_surgery, cancer, eye_surgery)
BranchStep(c) ==
    <<"Processing knee surgery claim", "Processing heart surgery claim",
      "Processing cancer treatment claim", "Processing eye surgery claim">>[c]

\* C25: the procedure extract_entities emits for a surface form of
\* knee_surgery, heart_surgery, cancer or eye_surgery never ends in the
\* rejection 'No matching coverage found', and a record that passes the age
\* gate is handled by the branch of that category
C25_CategoriesAgree ==
    \A c \in 1..4 :
        (pc = "responded" /\ result # None /\ E.procedure # None /\ Val(E.procedure) \in SurfaceForms(c)) =>
            /\ R.justification # "No matching coverage found"
            /\ (~AgeGate(E.age) /\ ~IsErrorResult(R)) => HasStep(R, BranchStep(c))

(***************************************************************************)
(* The age and gender token and the policy duration                        *)
(***************************************************************************)
IsLetter(c) == InChars(c, UpperChars) \/ InChars(c, LowerChars)

\* a number starts at position i of q
NumberStartsAt(q, i) == IsDigit(CharAt(q, i)) /\ (i = 1 \/ ~IsDigit(CharAt(q, i - 1)))

\* an age and gender token such as '46M' starts at position i: a number,
\* the letter M or F, and no letter after it
AgeGenderTokenAt(q, i) ==
    /\ NumberStartsAt(q, i)
    /\ LET j == DigitRunEnd(q, i)
       IN /\ j + 1 <= Len(q)
          /\ LowerChar(CharAt(q, j + 1)) \in {"m", "f"}
          /\ (j + 1 = Len(q) \/ ~IsLetter(CharAt(q, j + 2)))

\* a duration expression such as '6months', '3-month' or '2 y' starts at
\* position i, the age and gender token not being one
DurationExpressionAt(q, i) ==
    /\ NumberStartsAt(q, i)
    /\ ~AgeGenderTokenAt(q, i)
    /\ (DurationLongAt(q, i) # None \/ DurationShortAt(q, i) # None)

HoldsAgeGenderToken(q) == \E i \in 1..Len(q) : AgeGenderTokenAt(q, i)
HoldsDurationExpression(q) == \E i \in 1..Len(q) : DurationExpressionAt(q, i)

\* extract_entities has returned the entities of the query
Extracted == pc \in {"search", "reason", "responded"} /\ entities # None

\* what C26 says of the duration
DurationSeparate ==
    (Extracted /\ HoldsAgeGenderToken(query) /\ ~HoldsDurationExpression(query)) =>
        E.policy_duration = None

\* what C26 says of the age and the gender
AgeGenderSeparate ==
    (Extracted /\ HoldsDurationExpression(query) /\ ~HoldsAgeGenderToken(query)) =>
        E.age = None /\ E.gender = None

\* C26: a query that holds an age and gender token and no duration
\* expression has no policy_duration, and a query that holds a duration
\* expression and no age and gender token has no age and no gender
C26_TokenAndDurationSeparate == DurationSeparate /\ AgeGenderSeparate

(***************************************************************************)
(* The components get_components returns                                   *)
(***************************************************************************)
\* C27: when get_components has returned without raising, the vector store,
\* the LLM client, the PDF processor and the text chunker are all
\* initialized
C27_ComponentsInitialized ==
    qpc = "fetch" =>
        /\ components.vector_store
        /\ components.llm_client
        /\ components.pdf_processor
        /\ components.text_chunker

(***************************************************************************)
(* The documents of the index                                              *)
(***************************************************************************)
\* C28: the chunks retrieved for a question are chunks of the document of
\* the request being served
C28_RetrievalOfOwnDocument ==
    \A k \in 1..Len(trace) :
        \A m \in 1..Len(trace[k].matches) :
            trace[k].matches[m].doc_id = DocId(Val(pdf).title)

(***************************************************************************)
(* The response of the /hackrx/run endpoint                                *)
(***************************************************************************)
\* the request has been answered with a response body
Responded == qpc = "responded" /\ status = 200

\* C29: the explainability record of a response has one entry for each
\* question of the request, as many as there are answers
C29_OneEntryPerQuestion ==
    Responded =>
        /\ Cardinality(DOMAIN explain) = Len(Questions)
        /\ Cardinality(DOMAIN explain) = Len(answers)

\* C30: in a response, chunks_processed is the number of chunks stored in
\* the index for the document of the request, and questions_processed is
\* the number of answers
C30_MetadataCounts ==
    Responded =>
        /\ Val(metadata).chunks_processed = Len(LimitChunks(chunks))
        /\ Val(metadata).chunks_processed = Cardinality(StoredFor(DocId(Val(pdf).title)))
        /\ Val(metadata).questions_processed = Len(answers)

====
